---- MODULE Spec2Model ----
(***************************************************************************)
(* Model of app.py: the Flask backend of the email agent.                  *)
(*                                                                         *)
(* State: the two SQLite tables the handlers use (clients, logs) and, for  *)
(* each HTTP request to POST /api/analyze-email being handled, the         *)
(* position of its handler and its local variables.  Every database        *)
(* statement of a handler is one atomic step (each opens its own           *)
(* connection and commits), so two requests interleave between the         *)
(* statements exactly as two Flask worker threads do.                      *)
(*                                                                         *)
(* Texts produced by the generative model are sequences of tokens:         *)
(*   "a"   a character of ordinary text                                    *)
(*   " "   a whitespace character                                          *)
(*   "SEP" the literal ---SEPARATION---                                    *)
(*   "{"   "}"  braces                                                     *)
(*   "m"   one well-formed JSON member ("key": value)                      *)
(*   "F"   a markdown code fence (three backticks)                         *)
(* The rate_limits table is created and never used; the read-only routes   *)
(* (GET /, /health, /admin/clients, /admin/logs, /admin/stats) change no   *)
(* state and are left out.  The timestamp columns hold the wall clock,     *)
(* which no handler reads back, and are left out of the rows.              *)
(***************************************************************************)
EXTENDS Integers, Sequences, FiniteSets, TLC

\* ---------------------------------------------------------------- bounds
\* Requests to /api/analyze-email handled (possibly concurrently).
MaxReqs == 2
\* Client rows POST /admin/clients may create.
MaxClients == 1
\* Admin requests (create, toggle, config update) in one behaviour.
MaxAdminOps == 3
\* Tokens in one generation output.
MaxLen == 4
\* Largest api_calls_limit of a client provisioned before the run.
MaxQuota == 2

\* ------------------------------------------------------ program constants
\* api_calls_limit INTEGER DEFAULT 500
DefaultLimit == 500
\* response[:500]
ResponsePrefix == 500

Reqs == 1..MaxReqs

\* ------------------------------------------------------------ text helpers
Whitespace == " "
Delimiter == "SEP"
Alphabet == {"a", Whitespace, Delimiter, "{", "}", "m", "F"}

RECURSIVE Strip(_)
\* str.strip(): drop leading and trailing whitespace.
Strip(s) ==
    IF s = <<>> THEN <<>>
    ELSE IF Head(s) = Whitespace THEN Strip(Tail(s))
    ELSE IF s[Len(s)] = Whitespace THEN Strip(SubSeq(s, 1, Len(s) - 1))
    ELSE s

\* Index of the first delimiter of s, 0 when there is none.
FirstDelimiter(s) ==
    IF \E i \in 1..Len(s) : s[i] = Delimiter
    THEN CHOOSE i \in 1..Len(s) :
            s[i] = Delimiter /\ \A j \in 1..(i - 1) : s[j] # Delimiter
    ELSE 0

RECURSIVE Split(_)
\* str.split('---SEPARATION---'): the list of segments, never empty.
Split(s) ==
    LET i == FirstDelimiter(s)
    IN  IF i = 0 THEN <<s>>
        ELSE <<SubSeq(s, 1, i - 1)>> \o Split(SubSeq(s, i + 1, Len(s)))

\* re.search(r'\{[\s\S]*\}', s): greedy, first "{" to the last "}" after it;
\* <<>> stands for no match (a match is never empty).
BraceMatch(s) ==
    LET opens == {i \in 1..Len(s) : s[i] = "{"}
    IN  IF opens = {} THEN <<>>
        ELSE LET lo == CHOOSE i \in opens : \A j \in opens : i <= j
                 closes == {i \in (lo + 1)..Len(s) : s[i] = "}"}
             IN  IF closes = {} THEN <<>>
                 ELSE LET hi == CHOOSE i \in closes : \A j \in closes : j <= i
                      IN  SubSeq(s, lo, hi)

RECURSIVE DropTrailingWhitespace(_)
DropTrailingWhitespace(s) ==
    IF s # <<>> /\ s[Len(s)] = Whitespace
    THEN DropTrailingWhitespace(SubSeq(s, 1, Len(s) - 1))
    ELSE s

RECURSIVE StripFencesFrom(_, _)
StripFencesFrom(done, rest) ==
    IF rest = <<>> THEN done
    ELSE IF Head(rest) = "F"
         THEN StripFencesFrom(DropTrailingWhitespace(done), Tail(rest))
         ELSE StripFencesFrom(Append(done, Head(rest)), Tail(rest))

\* re.sub of the fence pattern by the empty text: each fence goes, with the
\* whitespace run before it.
StripFences(s) == StripFencesFrom(<<>>, s)

\* The texts json.loads decodes, over the alphabet: an object with no member
\* or one member, whitespace allowed around the member.
NoWhitespace(s) == SelectSeq(s, LAMBDA t : t # Whitespace)

JsonDecodable(s) == NoWhitespace(s) \in {<<"{", "}">>, <<"{", "m", "}">>}

\* json.loads(s) for a decodable s: the empty object or an object with a member.
JsonLoads(s) == IF NoWhitespace(s) = <<"{", "}">> THEN "{}" ELSE "{m}"

\* bool(x) of a decoded quote: None and the empty dict are falsy.
Truthy(devis_data) == devis_data \notin {"None", "{}"}

\* response[:500] if response else ''
Truncate(response) ==
    IF Len(response) <= ResponsePrefix THEN response
    ELSE SubSeq(response, 1, ResponsePrefix)

\* ------------------------------------------------------------------ state
VARIABLES
    clients,    \* table clients: the rows, in insertion order
    logs,       \* table logs: the rows, in insertion order (id = position)
    req,        \* per request: position of the handler and its local variables
    resp,       \* per request: the HTTP response returned (status 0: none yet)
    calls,      \* per request: model.generate_content calls made so far
    incd,       \* per request: client rows its increment_api_calls updated
    wrote,      \* per request: log rows its log_action calls inserted
    adminOps,   \* admin requests handled so far
    lastAdmin   \* the last admin request and the status it returned

vars == <<clients, logs, req, resp, calls, incd, wrote, adminOps, lastAdmin>>

\* The columns of table clients (CREATE TABLE clients).
Columns ==
    {"client_id", "company_name", "email", "config", "is_active", "draft_mode",
     "created_at", "api_calls_count", "api_calls_limit"}

\* Columns declared TEXT: an integer bound to them is stored as its text.
\* created_at (TIMESTAMP) is kept as text too.
TextColumns == {"client_id", "company_name", "email", "config", "created_at"}

\* str(uuid.uuid4()): the n-th identifier generated.
Uuid(n) == "u" \o ToString(n)

\* json.dumps(data.get('config', {})) / json.dumps(request.json): the JSON bodies
\* an admin may send as configuration, as their text; "absent" is no config key.
ConfigInputs == {"{\"phone\": \"01\"}", "null"}

\* Whether json.loads(config) is a dict (has .get): the text of an object.
ConfigIsObject(config) == config \in {"{}", "{\"phone\": \"01\"}"}

\* The row INSERT INTO clients creates: is_active, draft_mode, api_calls_count
\* and api_calls_limit take the column defaults.
NewClient(client_id, config) ==
    [client_id |-> client_id, company_name |-> "Acme", email |-> "a@acme.fr",
     config |-> config, is_active |-> 1, draft_mode |-> 1, created_at |-> "now",
     api_calls_count |-> 0, api_calls_limit |-> DefaultLimit]

\* Positions of the rows WHERE client_id=? selects (at most one: PRIMARY KEY).
RowsOf(client_id) == {i \in 1..Len(clients) : clients[i].client_id = client_id}

\* ------------------------------------------------------------ admin routes
AdminDone(op, status) ==
    /\ adminOps' = adminOps + 1
    /\ lastAdmin' = [op |-> op, status |-> status]

AdminRoutes == {"create", "toggle", "config"}

\* require_admin rejecting a request to one of the routes below: the
\* Authorization header is missing or is not the secret.  The routes below
\* are the handlers behind an accepted header.
require_admin(op) ==
    /\ adminOps < MaxAdminOps
    /\ AdminDone(op, 401)
    /\ UNCHANGED <<clients, logs, req, resp, calls, incd, wrote>>

\* POST /admin/clients.  hasFields: the body has company_name and email
\* (data[...] raises KeyError otherwise, a 500); config: the config key.
create_client(hasFields, config) ==
    /\ adminOps < MaxAdminOps
    /\ IF ~hasFields
       THEN /\ AdminDone("create", 500)
            /\ UNCHANGED clients
       ELSE /\ Len(clients) < MaxClients
            /\ clients' = Append(clients,
                   NewClient(Uuid(Len(clients) + 1),
                             IF config = "absent" THEN "{}" ELSE config))
            /\ AdminDone("create", 201)
    /\ UNCHANGED <<logs, req, resp, calls, incd, wrote>>

\* The JSON values the toggle body may carry as "value"; "absent" is no key
\* (default True).
ToggleValues == {"absent", "true", "false", "abc"}

\* int(value) raises ValueError for a text that is no number.
IntRaises(value) == value = "abc"

\* int(value) otherwise: True and the default are 1, False is 0.
PyInt(value) == IF value = "false" THEN 0 ELSE 1

\* The field names the toggle body may carry: the two flags, the other
\* columns a handler reads, one column of display data, a name that is no
\* column, and "absent" (default 'is_active').
ToggleFields ==
    {"is_active", "draft_mode", "api_calls_count", "api_calls_limit",
     "client_id", "config", "company_name", "nope", "absent"}

\* Updating one row by the toggle: the value as the column stores it.
SetColumn(row, field, n) ==
    IF field \in TextColumns THEN [row EXCEPT ![field] = ToString(n)]
    ELSE [row EXCEPT ![field] = n]

\* The field toggle_client writes: whatever name the body gives.
ToggleTarget(field) == IF field = "absent" THEN "is_active" ELSE field

\* POST /admin/clients/<client_id>/toggle.
toggle_client(client_id, field, value) ==
    LET f == ToggleTarget(field)
        n == PyInt(value)
        rows == RowsOf(client_id)
    IN
    /\ adminOps < MaxAdminOps
    /\ IF IntRaises(value)
       THEN \* ValueError before the statement is built
            /\ AdminDone("toggle", 500)
            /\ UNCHANGED clients
       ELSE IF f \notin Columns
       THEN \* sqlite3.OperationalError: no such column
            /\ AdminDone("toggle", 500)
            /\ UNCHANGED clients
       ELSE IF /\ f = "client_id"
               /\ rows # {}
               /\ \E j \in 1..Len(clients) :
                      j \notin rows /\ clients[j].client_id = ToString(n)
       THEN \* sqlite3.IntegrityError: UNIQUE constraint failed
            /\ AdminDone("toggle", 500)
            /\ UNCHANGED clients
       ELSE /\ clients' = [i \in 1..Len(clients) |->
                              IF i \in rows THEN SetColumn(clients[i], f, n)
                              ELSE clients[i]]
            /\ AdminDone("toggle", 200)
    /\ UNCHANGED <<logs, req, resp, calls, incd, wrote>>

\* PUT /admin/clients/<client_id>/config: the body replaces the config.
update_client_config(client_id, config) ==
    /\ adminOps < MaxAdminOps
    /\ clients' = [i \in 1..Len(clients) |->
                     IF i \in RowsOf(client_id)
                     THEN [clients[i] EXCEPT !.config = config]
                     ELSE clients[i]]
    /\ AdminDone("config", 200)
    /\ UNCHANGED <<logs, req, resp, calls, incd, wrote>>

\* ------------------------------------------------------ /api/analyze-email
\* The X-Client-ID headers a caller may send: none (""), an identifier
\* create_client generated, the text of an integer, and an unknown one.
ClientIdInputs == {"", "1", "bogus"} \cup {Uuid(n) : n \in 1..MaxClients}

\* The JSON kinds of the body keys from, subject, body: missing or falsy,
\* a text, an object (truthy, and no type sqlite3 can bind).
FieldInputs == {"absent", "text", "object"}

\* The type tags the prompt asks for, and a reply outside them.
EmailTypes ==
    {"DEVIS", "RELANCE_PAIEMENT", "INFORMATION", "RECLAMATION", "AUTRE", "Bonjour"}

NoInfo == [client_id |-> "", draft_mode |-> 0, calls_count |-> 0]
NoResult == [email_response |-> <<>>, devis_data |-> "None"]

\* A request not yet received.
NewRequest ==
    [pc |-> "start", client_info |-> NoInfo, email_from |-> "",
     email_subject |-> "", config |-> "", email_type |-> "",
     full_response |-> <<>>, result |-> NoResult, e |-> ""]

\* A request whose handler returned: its locals are gone.
Finished == [NewRequest EXCEPT !.pc = "done"]

NoResponse == [status |-> 0, error |-> ""]

\* The handler returns (or Flask answers an unhandled exception).
Return(r, status, error) ==
    /\ resp' = [resp EXCEPT ![r] = [status |-> status, error |-> error]]
    /\ req' = [req EXCEPT ![r] = Finished]

\* The quota test with the comparison off by one.
QuotaReachedStrict(calls_count, calls_limit) == calls_count > calls_limit

\* The quota test of require_client.
QuotaReached(calls_count, calls_limit) == calls_count >= calls_limit

QuotaError == [status |-> 429, error |-> "API calls limit reached"]
DisabledError == [status |-> 403, error |-> "Client account disabled"]

\* The two tests of the gate in the other order: quota before is_active.
GateErrorQuotaFirst(row) ==
    IF QuotaReached(row.api_calls_count, row.api_calls_limit) THEN QuotaError
    ELSE IF row.is_active = 0 THEN DisabledError
    ELSE NoResponse

\* The tests require_client makes on the row it read: is_active first, then
\* the quota; NoResponse when the request may go on.
GateError(row) ==
    IF row.is_active = 0 THEN DisabledError
    ELSE IF QuotaReached(row.api_calls_count, row.api_calls_limit) THEN QuotaError
    ELSE NoResponse

\* require_client: the header, the SELECT, the tests, the context.
require_client(r, client_id) ==
    /\ req[r].pc = "start"
    /\ IF client_id = ""
       THEN Return(r, 400, "Missing client_id")
       ELSE IF RowsOf(client_id) = {}
       THEN Return(r, 403, "Invalid client_id")
       ELSE LET row == clients[CHOOSE i \in RowsOf(client_id) : TRUE]
                rejected == GateError(row)
            IN  IF rejected # NoResponse
                THEN Return(r, rejected.status, rejected.error)
                ELSE /\ req' = [req EXCEPT
                                  ![r].pc = "limiter",
                                  ![r].client_info =
                                      [client_id |-> client_id,
                                       draft_mode |-> row.draft_mode,
                                       calls_count |-> row.api_calls_count]]
                     /\ UNCHANGED resp
    /\ UNCHANGED <<clients, logs, calls, incd, wrote, adminOps, lastAdmin>>

\* @limiter.limit("50 per hour"): flask_limiter lets the call through or
\* answers 429 itself, by the caller's address.
limiter(r, pass) ==
    /\ req[r].pc = "limiter"
    /\ IF pass
       THEN /\ req' = [req EXCEPT ![r].pc = "validate"]
            /\ UNCHANGED resp
       ELSE Return(r, 429, "50 per 1 hour")
    /\ UNCHANGED <<clients, logs, calls, incd, wrote, adminOps, lastAdmin>>

\* analyze_email up to the try: the body and its three required keys.
\* isObject: request.json is a JSON object (data.get raises otherwise,
\* outside the try: Flask answers 500).
validate(r, isObject, email_from, email_subject, email_body) ==
    /\ req[r].pc = "validate"
    /\ IF ~isObject
       THEN Return(r, 500, "Internal Server Error")
       ELSE IF "absent" \in {email_from, email_subject, email_body}
       THEN Return(r, 400, "Missing email data")
       ELSE /\ req' = [req EXCEPT ![r].pc = "config",
                                  ![r].email_from = email_from,
                                  ![r].email_subject = email_subject]
            /\ UNCHANGED resp
    /\ UNCHANGED <<clients, logs, calls, incd, wrote, adminOps, lastAdmin>>

\* An exception inside the try: control goes to the except clause.
Raise(r, e) == req' = [req EXCEPT ![r].pc = "except", ![r].e = e]

\* SELECT config ...; json.loads(c.fetchone()[0]).
read_config(r) ==
    /\ req[r].pc = "config"
    /\ LET rows == RowsOf(req[r].client_info.client_id)
       IN  IF rows = {}
           THEN Raise(r, "TypeError")
           ELSE req' = [req EXCEPT
                          ![r].pc = "classify",
                          ![r].config = clients[CHOOSE i \in rows : TRUE].config]
    /\ UNCHANGED <<clients, logs, resp, calls, incd, wrote, adminOps, lastAdmin>>

\* model.generate_content(analysis_prompt); .text.strip().
classify(r, ok, email_type) ==
    /\ req[r].pc = "classify"
    /\ calls' = [calls EXCEPT ![r] = @ + 1]
    /\ IF ok
       THEN req' = [req EXCEPT ![r].pc = "generate", ![r].email_type = email_type]
       ELSE Raise(r, "GenerationError")
    /\ UNCHANGED <<clients, logs, resp, incd, wrote, adminOps, lastAdmin>>

\* build_system_prompt (config.get raises when the config is no object),
\* then model.generate_content(generation_prompt); .text.
generate(r, ok, full_response) ==
    /\ req[r].pc = "generate"
    /\ IF ~ConfigIsObject(req[r].config)
       THEN /\ Raise(r, "AttributeError")
            /\ UNCHANGED calls
       ELSE /\ calls' = [calls EXCEPT ![r] = @ + 1]
            /\ IF ok
               THEN req' = [req EXCEPT ![r].pc = "parse",
                                       ![r].full_response = full_response]
               ELSE Raise(r, "GenerationError")
    /\ UNCHANGED <<clients, logs, resp, incd, wrote, adminOps, lastAdmin>>

\* The reply text of a DEVIS output with the strip() forgotten.
DevisReplyUnstripped(full_response) == Split(full_response)[1]

\* The reply text of a DEVIS output: parts[0].strip().
DevisReply(full_response) == Strip(Split(full_response)[1])

\* The quote of a DEVIS output: the inner try of analyze_email.  No match
\* leaves None; an exception of json.loads is caught and leaves None.
DevisData(full_response) ==
    LET parts == Split(full_response)
        json_match == BraceMatch(IF Len(parts) > 1 THEN parts[2] ELSE <<>>)
        devis_json == StripFences(json_match)
    IN  IF json_match = <<>> THEN "None"
        ELSE IF JsonDecodable(devis_json) THEN JsonLoads(devis_json)
        ELSE "None"

\* "Traiter la reponse": the result built from the generation output.
ParseOutput(email_type, full_response) ==
    IF email_type = "DEVIS"
    THEN [email_response |-> DevisReply(full_response),
          devis_data |-> DevisData(full_response)]
    ELSE [email_response |-> full_response, devis_data |-> "None"]

parse(r) ==
    /\ req[r].pc = "parse"
    /\ req' = [req EXCEPT
                 ![r].pc = "increment",
                 ![r].result = ParseOutput(req[r].email_type, req[r].full_response)]
    /\ UNCHANGED <<clients, logs, resp, calls, incd, wrote, adminOps, lastAdmin>>

\* UPDATE clients SET api_calls_count = api_calls_count + 1 WHERE client_id=?
increment_api_calls(r) ==
    /\ req[r].pc = "increment"
    /\ LET rows == RowsOf(req[r].client_info.client_id)
       IN  /\ clients' = [i \in 1..Len(clients) |->
                            IF i \in rows
                            THEN [clients[i] EXCEPT !.api_calls_count = @ + 1]
                            ELSE clients[i]]
           /\ incd' = [incd EXCEPT ![r] = @ + Cardinality(rows)]
    /\ req' = [req EXCEPT ![r].pc = "log"]
    /\ UNCHANGED <<logs, resp, calls, wrote, adminOps, lastAdmin>>

\* sqlite3 binds texts, numbers and None; a dict or a list raises.
Bindable(v) == v # "object"

\* The row log_action inserts.
LogRow(client_id, email_from, email_subject, email_type, response, pdf_generated, success) ==
    [client_id |-> client_id, email_from |-> email_from,
     email_subject |-> email_subject, email_type |-> email_type,
     response_generated |-> Truncate(response),
     pdf_generated |-> pdf_generated, success |-> success]

\* log_action(..., True) and return jsonify(result).
log_success(r) ==
    /\ req[r].pc = "log"
    /\ IF Bindable(req[r].email_from) /\ Bindable(req[r].email_subject)
       THEN /\ logs' = Append(logs,
                   LogRow(req[r].client_info.client_id, req[r].email_from,
                          req[r].email_subject, req[r].email_type,
                          req[r].result.email_response,
                          Truthy(req[r].result.devis_data), TRUE))
            /\ wrote' = [wrote EXCEPT ![r] = @ + 1]
            /\ Return(r, 200, "")
       ELSE /\ Raise(r, "ProgrammingError")
            /\ UNCHANGED <<logs, wrote, resp>>
    /\ UNCHANGED <<clients, calls, incd, adminOps, lastAdmin>>

\* except Exception as e: log_action(..., '', str(e), False, False) and the
\* 500 response.  When log_action raises here, nothing catches it and Flask
\* answers 500.
log_failure(r) ==
    /\ req[r].pc = "except"
    /\ IF Bindable(req[r].email_from) /\ Bindable(req[r].email_subject)
       THEN /\ logs' = Append(logs,
                   LogRow(req[r].client_info.client_id, req[r].email_from,
                          req[r].email_subject, "", <<req[r].e>>, FALSE, FALSE))
            /\ wrote' = [wrote EXCEPT ![r] = @ + 1]
            /\ Return(r, 500, req[r].e)
       ELSE /\ Return(r, 500, "Internal Server Error")
            /\ UNCHANGED <<logs, wrote>>
    /\ UNCHANGED <<clients, calls, incd, adminOps, lastAdmin>>

\* ---------------------------------------------------------- specifications
\* The steps of one POST /api/analyze-email, with the body keys drawn from
\* fields and the model's replies from the given type tags and outputs.
analyze_email(r, fields, types, outputs) ==
    \/ \E client_id \in ClientIdInputs : require_client(r, client_id)
    \/ \E pass \in BOOLEAN : limiter(r, pass)
    \/ \E isObject \in BOOLEAN, f, s, b \in fields : validate(r, isObject, f, s, b)
    \/ read_config(r)
    \/ \E ok \in BOOLEAN, t \in types : classify(r, ok, t)
    \/ \E ok \in BOOLEAN, out \in outputs : generate(r, ok, out)
    \/ parse(r)
    \/ increment_api_calls(r)
    \/ log_success(r)
    \/ log_failure(r)

\* Generation outputs of the pipeline runs: plain text, padded text, a reply
\* with a one-member quote, with an empty quote, with a truncated quote, with
\* an undecodable quote and with a delimiter and no brace.
SampleOutputs ==
    {<<"a">>, <<" ", "a", " ">>, <<"a", "SEP", "{", "m", "}">>,
     <<"a", "SEP", "{", "}">>, <<"a", "SEP", "{", "m">>,
     <<"a", "SEP", "{", "a", "}">>, <<"a", "SEP", "a">>}

\* Inputs of the runs with concurrent requests: well-formed or incomplete
\* bodies, a quote request answered with a reply and a quote.
PlainFields == {"absent", "text"}
QuoteType == {"DEVIS"}
QuoteOutput == {<<"a", "SEP", "{", "m", "}">>}

\* Every generation output of at most MaxLen tokens.
AllOutputs == UNION {[1..n -> Alphabet] : n \in 0..MaxLen}

RequestsInit ==
    /\ req = [r \in Reqs |-> NewRequest]
    /\ resp = [r \in Reqs |-> NoResponse]
    /\ calls = [r \in Reqs |-> 0]
    /\ incd = [r \in Reqs |-> 0]
    /\ wrote = [r \in Reqs |-> 0]
    /\ adminOps = 0
    /\ lastAdmin = [op |-> "", status |-> 0]

\* After init_db() on a fresh database file: both tables empty.
Init ==
    /\ clients = <<>>
    /\ logs = <<>>
    /\ RequestsInit

\* The whole HTTP surface that writes: the admin routes, in any order and at
\* any point of one client request.
Next ==
    \/ \E op \in AdminRoutes : require_admin(op)
    \/ \E hasFields \in BOOLEAN, config \in ConfigInputs \cup {"absent"} :
          create_client(hasFields, config)
    \/ \E client_id \in ClientIdInputs \ {""},
          field \in ToggleFields, value \in ToggleValues :
          toggle_client(client_id, field, value)
    \/ \E client_id \in ClientIdInputs \ {""}, config \in ConfigInputs :
          update_client_config(client_id, config)
    \/ analyze_email(1, PlainFields, QuoteType, QuoteOutput)

Spec == Init /\ [][Next]_vars

\* A database that already holds one client, created by create_client, whose
\* flag and counters are as given.
Provisioned(active, count, limit) ==
    /\ clients = <<[NewClient(Uuid(1), "{}") EXCEPT
                      !.is_active = active,
                      !.api_calls_count = count,
                      !.api_calls_limit = limit]>>
    /\ logs = <<>>
    /\ RequestsInit

\* Client-role requests only, handled concurrently, for a client that starts
\* at or below its limit.
ClientInit ==
    \E active \in {0, 1}, limit \in 1..MaxQuota :
       \E count \in 0..limit : Provisioned(active, count, limit)

ClientNext == \E r \in Reqs : analyze_email(r, PlainFields, QuoteType, QuoteOutput)

ClientSpec == ClientInit /\ [][ClientNext]_vars

\* One request from the gate to the response, with every kind of body, every
\* type tag and the sample outputs, for a client in any quota state.
PipelineInit ==
    \E active \in {0, 1}, limit \in 0..MaxQuota, count \in 0..(MaxQuota + 1) :
       Provisioned(active, count, limit)

PipelineNext == analyze_email(1, FieldInputs, EmailTypes, SampleOutputs)

PipelineSpec == PipelineInit /\ [][PipelineNext]_vars

\* The parse step alone, on every type tag and every generation output of at
\* most MaxLen tokens: request 1 of an active client has passed the gate and
\* the validation, and the generation call has just returned.
ParseInit ==
    /\ clients = <<NewClient(Uuid(1), "{}")>>
    /\ logs = <<>>
    /\ \E email_type \in EmailTypes, full_response \in AllOutputs :
          req = [r \in Reqs |->
                   IF r = 1
                   THEN [NewRequest EXCEPT
                           !.pc = "parse",
                           !.client_info = [client_id |-> Uuid(1), draft_mode |-> 1,
                                            calls_count |-> 0],
                           !.email_from = "text", !.email_subject = "text",
                           !.config = "{}", !.email_type = email_type,
                           !.full_response = full_response]
                   ELSE NewRequest]
    /\ resp = [r \in Reqs |-> NoResponse]
    /\ calls = [r \in Reqs |-> IF r = 1 THEN 2 ELSE 0]
    /\ incd = [r \in Reqs |-> 0]
    /\ wrote = [r \in Reqs |-> 0]
    /\ adminOps = 0
    /\ lastAdmin = [op |-> "", status |-> 0]

ParseNext == parse(1)

ParseSpec == ParseInit /\ [][ParseNext]_vars

\* ------------------------------------------------------------------ claims
\* The client row a header selects is active / inactive, at or past its limit.
ActiveAtQuota(client_id) ==
    \E i \in RowsOf(client_id) :
       /\ clients[i].is_active # 0
       /\ clients[i].api_calls_count >= clients[i].api_calls_limit

Inactive(client_id) == \E i \in RowsOf(client_id) : clients[i].is_active = 0

\* Request r leaves the pipeline in this step (from the success log write or
\* from the except clause).
PipelineEnds(r) == req[r].pc \in {"log", "except"} /\ req'[r].pc = "done"

\* C1: every run of the pipeline, ending in success or in failure, has added
\* exactly one log row when it returns, and never holds two.
C1_ExactlyOneLogRow ==
    [][\A r \in Reqs : /\ PipelineEnds(r) => wrote'[r] = 1
                       /\ wrote'[r] <= 1]_vars

\* C2: with concurrent requests of a client that started at or below its
\* limit, api_calls_count never passes api_calls_limit.
C2_QuotaNeverExceeded ==
    \A i \in 1..Len(clients) :
       clients[i].api_calls_count <= clients[i].api_calls_limit

\* C3: a request whose gate check finds an active client with
\* api_calls_count >= api_calls_limit is answered 429 with the quota error,
\* the gate leaves the clients table as it is, and the request never
\* increments the counter.
C3_QuotaRejects ==
    /\ [][\A r \in Reqs :
            (req[r].pc = "start" /\ req'[r].pc # "start") =>
               \A client_id \in ClientIdInputs :
                  (require_client(r, client_id) /\ ActiveAtQuota(client_id))
                     => /\ resp'[r] = QuotaError
                        /\ req'[r].pc = "done"
                        /\ clients' = clients]_vars
    /\ [](\A r \in Reqs : resp[r] = QuotaError => incd[r] = 0)

\* C3 witness: a request was answered with the quota error while its client
\* is active and at or past its limit.
C3_Witness ==
    \E r \in Reqs :
       /\ resp[r] = QuotaError
       /\ incd[r] = 0
       /\ \E i \in 1..Len(clients) :
             /\ clients[i].is_active # 0
             /\ clients[i].api_calls_count >= clients[i].api_calls_limit

\* C4: a request that returned the success result incremented the counter
\* exactly once, and a request that returned an error (400, 403, 429, 500)
\* did not increment it.
C4_IncrementOnlyOnSuccess ==
    \A r \in Reqs :
       /\ resp[r].status = 200 => incd[r] = 1
       /\ resp[r].status \in {400, 403, 429, 500} => incd[r] = 0

\* C5: no operation of the HTTP surface decreases a client's api_calls_count.
C5_CountNeverDecreases ==
    [][\A i \in 1..Len(clients) :
          clients'[i].api_calls_count >= clients[i].api_calls_count]_vars

Togglable == {"is_active", "draft_mode"}

\* C6: an admin toggle of an existing client that names a field outside
\* {is_active, draft_mode} is rejected and leaves every client row unchanged.
C6_ToggleRejectsOtherFields ==
    [][\A client_id \in ClientIdInputs, field \in ToggleFields \ {"absent"},
          value \in ToggleValues :
          (/\ toggle_client(client_id, field, value)
           /\ RowsOf(client_id) # {}
           /\ field \notin Togglable)
             => /\ lastAdmin'.status >= 400
                /\ clients' = clients]_vars

\* C7 as stated: a request for an inactive client is answered 403 by the gate
\* whatever the quota state, and no request returns the success result while
\* its client is inactive.
C7_InactiveNeverServed ==
    [][\A r \in Reqs :
          /\ \A client_id \in ClientIdInputs :
                (require_client(r, client_id) /\ Inactive(client_id))
                   => resp'[r] = DisabledError
          /\ (resp[r].status = 0 /\ resp'[r].status = 200)
                => ~Inactive(req[r].client_info.client_id)]_vars

\* C7 amended: a request whose gate check finds its client inactive is
\* answered 403 "Client account disabled" whatever the quota state, the gate
\* writes nothing, and the request makes no model call, increments nothing
\* and writes no log row.
C7_InactiveRejectedAtGate ==
    /\ [][\A r \in Reqs :
            (req[r].pc = "start" /\ req'[r].pc # "start") =>
               \A client_id \in ClientIdInputs :
                  (require_client(r, client_id) /\ Inactive(client_id))
                     => /\ resp'[r] = DisabledError
                        /\ req'[r].pc = "done"
                        /\ clients' = clients
                        /\ logs' = logs]_vars
    /\ [](\A r \in Reqs :
             resp[r] = DisabledError
                => calls[r] = 0 /\ incd[r] = 0 /\ wrote[r] = 0)

\* C7 witness: a request was answered 403 "Client account disabled" while the
\* client is inactive and at or past its limit.
C7_Witness ==
    \E r \in Reqs :
       /\ resp[r] = DisabledError
       /\ \E i \in 1..Len(clients) :
             /\ clients[i].is_active = 0
             /\ clients[i].api_calls_count >= clients[i].api_calls_limit

ShortCircuitErrors ==
    {"Missing client_id", "Invalid client_id", "Client account disabled",
     "API calls limit reached", "Missing email data"}

GenerationStageErrors == {"TypeError", "AttributeError", "GenerationError"}

\* C8: a request rejected by the gate or by the required-field check made no
\* model call, wrote no log row and incremented nothing; a failure raised at
\* the generation stage is in the log, as a row with success false and an
\* empty email type, when the 500 response is returned.
C8_ShortCircuitAndFailureLogged ==
    /\ [](\A r \in Reqs :
             resp[r].error \in ShortCircuitErrors
                => calls[r] = 0 /\ wrote[r] = 0 /\ incd[r] = 0)
    /\ [][\A r \in Reqs :
            (/\ req[r].pc = "except"
             /\ req[r].e \in GenerationStageErrors
             /\ req'[r].pc = "done")
               => /\ resp'[r].status = 500
                  /\ wrote'[r] = wrote[r] + 1
                  /\ Len(logs') = Len(logs) + 1
                  /\ logs'[Len(logs')].success = FALSE
                  /\ logs'[Len(logs')].email_type = ""]_vars

HasDelimiter(s) == \E i \in 1..Len(s) : s[i] = Delimiter

\* C9 as stated: after the parse step on an output without delimiter, for
\* every email type, the quote is null and the reply text is the output.
C9_NoDelimiterFullOutput ==
    \A r \in Reqs :
       (req[r].pc = "increment" /\ ~HasDelimiter(req[r].full_response))
          => /\ req[r].result.devis_data = "None"
             /\ req[r].result.email_response = req[r].full_response

\* t is s without its leading and trailing whitespace.
IsStripped(t, s) ==
    \E i \in 1..(Len(s) + 1), j \in 0..Len(s) :
       /\ t = SubSeq(s, i, j)
       /\ \A k \in 1..Len(s) : (k < i \/ k > j) => s[k] = Whitespace
       /\ t # <<>> => (t[1] # Whitespace /\ t[Len(t)] # Whitespace)

\* C9 amended: after the parse step on an output without delimiter the quote
\* is null and the parse step raised nothing; the reply text is the output
\* for every type but DEVIS, and the output without its leading and trailing
\* whitespace for DEVIS.
C9_NoDelimiterReply ==
    \A r \in Reqs :
       /\ req[r].pc # "except"
       /\ (req[r].pc = "increment" /\ ~HasDelimiter(req[r].full_response))
             => /\ req[r].result.devis_data = "None"
                /\ IF req[r].email_type = "DEVIS"
                   THEN IsStripped(req[r].result.email_response,
                                   req[r].full_response)
                   ELSE req[r].result.email_response = req[r].full_response

\* C9 witness: the parse step has run on a DEVIS output without delimiter
\* that has whitespace around its text.
C9_Witness ==
    \E r \in Reqs :
       /\ req[r].pc = "increment"
       /\ req[r].email_type = "DEVIS"
       /\ ~HasDelimiter(req[r].full_response)
       /\ Len(req[r].full_response) >= 2
       /\ req[r].full_response[1] = Whitespace
       /\ req[r].result.email_response # <<>>
       /\ req[r].result.email_response # req[r].full_response

\* A DEVIS output with the delimiter whose second segment holds no quote that
\* decodes: no brace pattern, or a brace pattern that json.loads refuses.
MalformedQuote(s) ==
    /\ HasDelimiter(s)
    /\ LET m == BraceMatch(Split(s)[2])
       IN  m = <<>> \/ ~JsonDecodable(StripFences(m))

\* C10: a DEVIS request whose output has the delimiter and a malformed JSON
\* segment has a null quote after the parse step and ends on the success
\* path: response 200, one log row with success true, one increment.
C10_MalformedQuoteStillSucceeds ==
    /\ [](\A r \in Reqs :
             (/\ req[r].pc \in {"increment", "log"}
              /\ req[r].email_type = "DEVIS"
              /\ MalformedQuote(req[r].full_response))
                => req[r].result.devis_data = "None")
    /\ [][\A r \in Reqs :
            (/\ req[r].pc = "log"
             /\ req[r].email_type = "DEVIS"
             /\ MalformedQuote(req[r].full_response)
             /\ req'[r].pc # "log")
               => /\ resp'[r].status = 200
                  /\ wrote'[r] = 1
                  /\ incd'[r] = 1
                  /\ logs'[Len(logs')].success = TRUE]_vars

\* A request on the success path about to write its log row: the result it
\* holds is the one jsonify returns to the caller.
Succeeds(r) == req[r].pc = "log" /\ req'[r].pc = "done" /\ resp'[r].status = 200

\* C11: on every successful request the pdf_generated flag of the log row
\* written is true exactly when the quote data returned to the caller is not
\* null, the empty object included, and it is false for every email type
\* other than DEVIS.
C11_QuoteFlagIffQuoteNonNull ==
    [][\A r \in Reqs :
         Succeeds(r) =>
            /\ logs'[Len(logs')].pdf_generated
                  = (req[r].result.devis_data # "None")
            /\ req[r].email_type # "DEVIS"
                  => logs'[Len(logs')].pdf_generated = FALSE]_vars

====
